---- MODULE Spec2Model ----
(***************************************************************************)
(* Sequence Analytics Engine of backend/etl/process_txt.py.                *)
(*                                                                         *)
(* A string is a sequence of one-character strings.  A Python dict is a    *)
(* sequence of entries in insertion order.  A GC percentage is an integer  *)
(* number of hundredths of a percent (5000 stands for 50.0).               *)
(***************************************************************************)
EXTENDS Integers, Sequences, FiniteSets, TLC

\* ---------------------------------------------------------------- bounds
\* Longest sequence file (in characters) the orchestrator is run on.
MaxFileLen == 7
\* Shape of the argument lists of the wide direct calls of the LCS engine.
WideSeqs == 3
WideLen == 4
\* Longest sequence process_sequence is called on alone.
MaxSeqLen == 7
\* Most lines of a file of whole codons.
ScenarioSeqs == 3
\* Longest sequence of a pair find_lcs_of_two is called on alone.
MaxPairSeqLen == 4

\* ------------------------------------------------------------ characters
NL == "\n"
Alphabet == {"A", "C"}
Whitespace == {" ", NL}
FileChars == Alphabet \cup Whitespace

Files == UNION {[1..n -> FileChars] : n \in 0..MaxFileLen}

\* ---------------------------------------------------------- str helpers
\* Python: sub in s
IsSubstr(sub, s) ==
    \E i \in 0..(Len(s) - Len(sub)) : SubSeq(s, i + 1, i + Len(sub)) = sub

\* Python: s[i:j] for 0 <= i, clamped at len(s)
Slice(s, i, j) == SubSeq(s, i + 1, IF j > Len(s) THEN Len(s) ELSE j)

RECURSIVE lstrip(_)
lstrip(s) ==
    IF s # <<>> /\ Head(s) \in Whitespace THEN lstrip(Tail(s)) ELSE s

RECURSIVE rstrip(_)
rstrip(s) ==
    IF s # <<>> /\ s[Len(s)] \in Whitespace
    THEN rstrip(SubSeq(s, 1, Len(s) - 1)) ELSE s

\* Variant of strip: only trailing whitespace is removed, line.rstrip()
strip_right(line) == rstrip(line)

\* Python: line.strip()
strip(line) == rstrip(lstrip(line))

\* Python: for line in file -- each line keeps its terminating newline
RECURSIVE FileLines(_)
FileLines(text) ==
    IF text = <<>> THEN <<>>
    ELSE IF \E k \in 1..Len(text) : text[k] = NL
         THEN LET k == CHOOSE k \in 1..Len(text) :
                            text[k] = NL /\ \A m \in 1..(k - 1) : text[m] # NL
              IN <<SubSeq(text, 1, k)>> \o FileLines(SubSeq(text, k + 1, Len(text)))
         ELSE <<text>>

\* Variant of StripNonBlank: the filter 'if line.strip()' is dropped
RECURSIVE StripNonBlank_keep(_)
StripNonBlank_keep(lines) ==
    IF lines = <<>> THEN <<>>
    ELSE <<strip(Head(lines))>> \o StripNonBlank_keep(Tail(lines))

\* Python: [line.strip() for line in file if line.strip()]
RECURSIVE StripNonBlank(_)
StripNonBlank(lines) ==
    IF lines = <<>> THEN <<>>
    ELSE IF strip(Head(lines)) # <<>>
         THEN <<strip(Head(lines))>> \o StripNonBlank(Tail(lines))
         ELSE StripNonBlank(Tail(lines))

ReadSequences(text) == StripNonBlank(FileLines(text))

\* Python: sep.join(parts)
RECURSIVE Join(_, _)
Join(sep, parts) ==
    IF parts = <<>> THEN <<>>
    ELSE IF Len(parts) = 1 THEN Head(parts)
    ELSE Head(parts) \o sep \o Join(sep, Tail(parts))

\* ------------------------------------------------------------ dict helpers
\* A dict is a sequence of [key, val] entries in insertion order.
DictKeys(d) == [k \in 1..Len(d) |-> d[k].key]
DictValues(d) == [k \in 1..Len(d) |-> d[k].val]
DictHas(d, key) == \E k \in 1..Len(d) : d[k].key = key
DictGet(d, key) == d[CHOOSE k \in 1..Len(d) : d[k].key = key].val
\* d[key] = val: an existing key keeps its position
DictSet(d, key, val) ==
    IF DictHas(d, key)
    THEN [k \in 1..Len(d) |-> IF d[k].key = key THEN [key |-> key, val |-> val] ELSE d[k]]
    ELSE Append(d, [key |-> key, val |-> val])

\* Python: max(values) of a non-empty sequence of integers
MaxOf(values) ==
    CHOOSE v \in {values[k] : k \in 1..Len(values)} :
        \A k \in 1..Len(values) : values[k] <= v

\* ------------------------------------------------------ Composition Counter
\* round(num / den, 2) in hundredths, ties to even (Python 3 round)
RoundHundredths(num, den) ==
    LET q == (100 * num) \div den
        r == (100 * num) % den
    IN IF 2 * r > den \/ (2 * r = den /\ q % 2 = 1) THEN q + 1 ELSE q

CountChar(s, c) == Cardinality({k \in 1..Len(s) : s[k] = c})

\* Variant of calc_gc_content: the denominator is the number of characters
\* covered by complete codons (the full length when no codon is complete)
calc_gc_content_codon_den(sequence) ==
    RoundHundredths(100 * (CountChar(sequence, "C") + CountChar(sequence, "G")),
                    IF Len(sequence) < 3 THEN Len(sequence)
                    ELSE Len(sequence) - (Len(sequence) % 3))

calc_gc_content(sequence) ==
    RoundHundredths(100 * (CountChar(sequence, "C") + CountChar(sequence, "G")),
                    Len(sequence))

\* Variant of codon_scan: range(0, len(sequence), 3), so a trailing window
\* of 1 or 2 characters is counted as a key of its own
RECURSIVE codon_scan_partial(_, _, _)
codon_scan_partial(sequence, i, codon_freq) ==
    IF i >= Len(sequence) THEN codon_freq
    ELSE LET codon == Slice(sequence, i, i + 3)
         IN codon_scan_partial(sequence, i + 3,
                IF DictHas(codon_freq, codon)
                THEN DictSet(codon_freq, codon, DictGet(codon_freq, codon) + 1)
                ELSE DictSet(codon_freq, codon, 1))

upper(s) == [k \in 1..Len(s) |-> IF s[k] = "c" THEN "C" ELSE s[k]]

\* Variant of codon_scan: each window is upper-cased before it is counted
RECURSIVE codon_scan_upper(_, _, _)
codon_scan_upper(sequence, i, codon_freq) ==
    IF i >= Len(sequence) - (Len(sequence) % 3) THEN codon_freq
    ELSE LET codon == upper(Slice(sequence, i, i + 3))
         IN codon_scan_upper(sequence, i + 3,
                IF DictHas(codon_freq, codon)
                THEN DictSet(codon_freq, codon, DictGet(codon_freq, codon) + 1)
                ELSE DictSet(codon_freq, codon, 1))

RECURSIVE codon_scan(_, _, _)
codon_scan(sequence, i, codon_freq) ==
    IF i >= Len(sequence) - (Len(sequence) % 3) THEN codon_freq
    ELSE LET codon == Slice(sequence, i, i + 3)
         IN codon_scan(sequence, i + 3,
                IF DictHas(codon_freq, codon)
                THEN DictSet(codon_freq, codon, DictGet(codon_freq, codon) + 1)
                ELSE DictSet(codon_freq, codon, 1))

compute_codon_frequency(sequence) == codon_scan(sequence, 0, <<>>)

process_sequence(sequence) ==
    [gc_content |-> calc_gc_content(sequence),
     codons |-> compute_codon_frequency(sequence)]

\* -------------------------------------------------- Global Codon Aggregator
\* Variant of merge_codons: a codon already in the table has its count
\* replaced by the count of the current sequence
RECURSIVE merge_codons_overwrite(_, _)
merge_codons_overwrite(total_codon_count, items) ==
    IF items = <<>> THEN total_codon_count
    ELSE merge_codons_overwrite(
             DictSet(total_codon_count, Head(items).key, Head(items).val),
             Tail(items))

\* for codon, count in codon_freq.items(): fold into total_codon_count
RECURSIVE merge_codons(_, _)
merge_codons(total_codon_count, items) ==
    IF items = <<>> THEN total_codon_count
    ELSE LET codon == Head(items).key
             count == Head(items).val
         IN merge_codons(
                IF DictHas(total_codon_count, codon)
                THEN DictSet(total_codon_count, codon,
                             DictGet(total_codon_count, codon) + count)
                ELSE DictSet(total_codon_count, codon, count),
                Tail(items))

\* for sequence in sequences: ...
RECURSIVE total_codon_table(_, _)
total_codon_table(total_codon_count, seqs) ==
    IF seqs = <<>> THEN total_codon_count
    ELSE total_codon_table(
             merge_codons(total_codon_count, compute_codon_frequency(Head(seqs))),
             Tail(seqs))

\* Variant of codons_with_count: only the first codon of maximum count is
\* kept, as max(total_codon_count, key=total_codon_count.get) would
RECURSIVE codons_with_count_first(_, _)
codons_with_count_first(items, max_frequency) ==
    IF items = <<>> THEN <<>>
    ELSE IF Head(items).val = max_frequency
         THEN <<Head(items).key>>
         ELSE codons_with_count_first(Tail(items), max_frequency)

\* [codon for codon, count in total_codon_count.items() if count == max_frequency]
RECURSIVE codons_with_count(_, _)
codons_with_count(items, max_frequency) ==
    IF items = <<>> THEN <<>>
    ELSE IF Head(items).val = max_frequency
         THEN <<Head(items).key>> \o codons_with_count(Tail(items), max_frequency)
         ELSE codons_with_count(Tail(items), max_frequency)

CodonSeparator == <<",", " ">>

\* raised: max() of an empty table raises ValueError; table is the local
\* total_codon_count at that point
compute_most_frequent_codon(seqs) ==
    LET total_codon_count == total_codon_table(<<>>, seqs)
    IN IF total_codon_count = <<>>
       THEN [raised |-> TRUE, value |-> <<>>, table |-> total_codon_count]
       ELSE LET max_frequency == MaxOf(DictValues(total_codon_count))
                most_frequent_codons == codons_with_count(total_codon_count, max_frequency)
            IN [raised |-> FALSE,
                value |-> Join(CodonSeparator, most_frequent_codons),
                table |-> total_codon_count]

\* ------------------------------------------------ Pairwise Substring Matcher
\* Variant of find_lcs_scan: the test is len(current_sub) >= len(longest_sub),
\* so a later match of equal length replaces an earlier one
RECURSIVE find_lcs_scan_ge(_, _, _, _, _)
find_lcs_scan_ge(sequence1, sequence2, i, length, longest_sub) ==
    IF i >= Len(sequence1) THEN longest_sub
    ELSE IF length > Len(sequence1) - i
         THEN find_lcs_scan_ge(sequence1, sequence2, i + 1, 1, longest_sub)
         ELSE LET current_sub == Slice(sequence1, i, i + length)
              IN find_lcs_scan_ge(sequence1, sequence2, i, length + 1,
                     IF IsSubstr(current_sub, sequence2)
                        /\ Len(current_sub) >= Len(longest_sub)
                     THEN current_sub ELSE longest_sub)

\* Loop state of find_lcs_of_two: i is the start offset, length the window
\* length about to be tried, longest_sub the best match so far.
RECURSIVE find_lcs_scan(_, _, _, _, _)
find_lcs_scan(sequence1, sequence2, i, length, longest_sub) ==
    IF i >= Len(sequence1) THEN longest_sub
    ELSE IF length > Len(sequence1) - i
         THEN find_lcs_scan(sequence1, sequence2, i + 1, 1, longest_sub)
         ELSE LET current_sub == Slice(sequence1, i, i + length)
              IN find_lcs_scan(sequence1, sequence2, i, length + 1,
                     IF IsSubstr(current_sub, sequence2)
                        /\ Len(current_sub) > Len(longest_sub)
                     THEN current_sub ELSE longest_sub)

\* Variant of find_lcs_of_two: the outer loop starts at offset 1, range(1, n)
find_lcs_of_two_from1(sequence1, sequence2) ==
    find_lcs_scan(sequence1, sequence2, 1, 1, <<>>)

find_lcs_of_two(sequence1, sequence2) ==
    find_lcs_scan(sequence1, sequence2, 0, 1, <<>>)

process_lcs_pair(pair) == find_lcs_of_two(pair[1], pair[2])

\* ---------------------------------------------------- LCS Resolution Engine
EmptyLcs == [value |-> <<>>, sequences |-> <<>>, length |-> 0]

\* itertools.combinations(range(n), 2): 0-based index pairs in lexicographic order
RECURSIVE combinations_from(_, _, _)
combinations_from(i, j, n) ==
    IF i >= n - 1 THEN <<>>
    ELSE IF j >= n THEN combinations_from(i + 1, i + 2, n)
    ELSE <<<<i, j>>>> \o combinations_from(i, j + 1, n)

combinations2(n) == combinations_from(0, 1, n)

\* [(sequences[i], sequences[j]) for i, j in combinations(range(len(sequences)), 2)]
\* Variant of sequence_pairs: a pair of two sequences with equal content is
\* left out
sequence_pairs_distinct(seqs) ==
    LET idx == SelectSeq(combinations2(Len(seqs)),
                         LAMBDA p : seqs[p[1] + 1] # seqs[p[2] + 1])
    IN [k \in 1..Len(idx) |-> <<seqs[idx[k][1] + 1], seqs[idx[k][2] + 1]>>]

sequence_pairs(seqs) ==
    LET idx == combinations2(Len(seqs))
    IN [k \in 1..Len(idx) |-> <<seqs[idx[k][1] + 1], seqs[idx[k][2] + 1]>>]

\* Variant of collect_candidates: a longer result does not reset the list
RECURSIVE collect_candidates_noreset(_, _, _)
collect_candidates_noreset(lcs_results, max_length, candidates) ==
    IF lcs_results = <<>> THEN candidates
    ELSE LET lcs == Head(lcs_results)
         IN IF lcs # <<>> /\ Len(lcs) >= max_length
            THEN collect_candidates_noreset(Tail(lcs_results), Len(lcs),
                                            Append(candidates, lcs))
            ELSE collect_candidates_noreset(Tail(lcs_results), max_length, candidates)

\* Variant of collect_candidates: the test 'lcs and' is dropped, so an empty
\* per-pair result is a candidate too
RECURSIVE collect_candidates_empty(_, _, _)
collect_candidates_empty(lcs_results, max_length, candidates) ==
    IF lcs_results = <<>> THEN candidates
    ELSE LET lcs == Head(lcs_results)
         IN IF Len(lcs) >= max_length
            THEN collect_candidates_empty(Tail(lcs_results), Len(lcs),
                     IF Len(lcs) > max_length THEN <<lcs>> ELSE Append(candidates, lcs))
            ELSE collect_candidates_empty(Tail(lcs_results), max_length, candidates)

\* for lcs in lcs_results: track the candidates of maximum length
RECURSIVE collect_candidates(_, _, _)
collect_candidates(lcs_results, max_length, candidates) ==
    IF lcs_results = <<>> THEN candidates
    ELSE LET lcs == Head(lcs_results)
         IN IF lcs # <<>> /\ Len(lcs) >= max_length
            THEN collect_candidates(Tail(lcs_results), Len(lcs),
                     IF Len(lcs) > max_length THEN <<lcs>> ELSE Append(candidates, lcs))
            ELSE collect_candidates(Tail(lcs_results), max_length, candidates)

\* Variant of dedup: a new value is put in front of the values kept so far
RECURSIVE dedup_prepend(_, _)
dedup_prepend(items, kept) ==
    IF items = <<>> THEN kept
    ELSE dedup_prepend(Tail(items),
               IF \E k \in 1..Len(kept) : kept[k] = Head(items)
               THEN kept ELSE <<Head(items)>> \o kept)

\* list(dict.fromkeys(items)): first occurrence of each value, in order
RECURSIVE dedup(_, _)
dedup(items, kept) ==
    IF items = <<>> THEN kept
    ELSE dedup(Tail(items),
               IF \E k \in 1..Len(kept) : kept[k] = Head(items)
               THEN kept ELSE Append(kept, Head(items)))

\* Variant of indices_containing: the indices are left 0-based
RECURSIVE indices_containing_0based(_, _, _)
indices_containing_0based(candidate, seqs, i) ==
    IF i >= Len(seqs) THEN <<>>
    ELSE IF IsSubstr(candidate, seqs[i + 1])
         THEN <<i>> \o indices_containing_0based(candidate, seqs, i + 1)
         ELSE indices_containing_0based(candidate, seqs, i + 1)

\* [i + 1 for i, seq in enumerate(sequences) if candidate in seq]
RECURSIVE indices_containing(_, _, _)
indices_containing(candidate, seqs, i) ==
    IF i >= Len(seqs) THEN <<>>
    ELSE IF IsSubstr(candidate, seqs[i + 1])
         THEN <<i + 1>> \o indices_containing(candidate, seqs, i + 1)
         ELSE indices_containing(candidate, seqs, i + 1)

\* for candidate in candidates: keep the candidates of maximum occurrence
RECURSIVE rank_candidates(_, _, _, _)
rank_candidates(candidates, seqs, max_occurrences, best_results) ==
    IF candidates = <<>> THEN best_results
    ELSE LET candidate == Head(candidates)
             sequence_indices == indices_containing(candidate, seqs, 0)
             current_occurrences == Len(sequence_indices)
             entry == [value |-> candidate,
                       sequences |-> sequence_indices,
                       length |-> Len(candidate)]
         IN IF current_occurrences >= max_occurrences
            THEN rank_candidates(Tail(candidates), seqs, current_occurrences,
                     DictSet(IF current_occurrences > max_occurrences
                             THEN <<>> ELSE best_results,
                             candidate, entry))
            ELSE rank_candidates(Tail(candidates), seqs, max_occurrences, best_results)

\* Variant of resolve_lcs: the first best record is returned whatever the
\* number of tied candidates
resolve_lcs_first(lcs_results, seqs) ==
    LET candidates == dedup(collect_candidates(lcs_results, 0, <<>>), <<>>)
    IN IF candidates = <<>>
       THEN [shape |-> "record", record |-> EmptyLcs]
       ELSE [shape |-> "record",
             record |-> rank_candidates(candidates, seqs, 0, <<>>)[1].val]

\* Lines 120-162: the single-threaded aggregation after the pair map.
\* A single record is [shape |-> "record", ...]; a tied result is
\* [shape |-> "mapping", items |-> the dict value -> record].
resolve_lcs(lcs_results, seqs) ==
    LET candidates == dedup(collect_candidates(lcs_results, 0, <<>>), <<>>)
    IN IF candidates = <<>>
       THEN [shape |-> "record", record |-> EmptyLcs]
       ELSE LET best_results == rank_candidates(candidates, seqs, 0, <<>>)
            IN IF Len(best_results) = 1
               THEN [shape |-> "record", record |-> best_results[1].val]
               ELSE [shape |-> "mapping", items |-> best_results]

\* ------------------------------------------------------------ worker pool
\* Variant of StoreResult: results are kept in completion order (imap_unordered)
StoreResult_arrival(done, k, result) == ((Cardinality(DOMAIN done) + 1) :> result) @@ done

\* pool.map(func, tasks): a worker stores the result of task k in slot k,
\* whatever the completion order; the join returns the slots in task order.
StoreResult(done, k, result) == (k :> result) @@ done

MapResult(done, n) == [k \in 1..n |-> done[k]]

\* ------------------------------------------------------------------ state
VARIABLES
    file,               \* characters of the sequence file at txt_file_path
    pc,                 \* position of the call
    sequences,          \* the list 'sequences' (non-blank stripped lines)
    tasks,              \* argument list handed to the live pool (copies)
    pending,            \* task indices no worker has completed yet
    slots,              \* results of the completed tasks, by task index
    arrived,            \* tasks whose results the last map holds, in completion order
    raisedBy,           \* first task of the live map whose worker raised, or 0
    pool,               \* the live worker pool: "none", "sequences" or "pairs"
    poolsStarted,       \* number of pools created so far
    sequences_results,  \* result of the first pool.map
    total_codon_count,  \* the table built by compute_most_frequent_codon
    most_common_codon,  \* result of compute_most_frequent_codon
    lcs_result,         \* result of compute_longest_common_subsequence
    returned,           \* record returned by process_txt_files
    error,              \* exception raised out of the call, or "none"
    run                 \* the process of backend/pipeline.py, field by field below

engine_vars == <<file, pc, sequences, tasks, pending, slots, arrived, raisedBy, pool,
                 poolsStarted, sequences_results, total_codon_count, most_common_codon,
                 lcs_result, returned, error>>

pipeline_vars == <<run>>

vars == <<engine_vars, pipeline_vars>>

NoLcs == [shape |-> "none"]
NoRecord == [kind |-> "none"]
NoInput == [kind |-> "none"]
NoJson == [kind |-> "none"]
NoFile == [kind |-> "none"]

\* backend/pipeline.py is not run: the engine is called on its own
PipelineIdle ==
    run = [input |-> NoInput, stage |-> "idle", log |-> <<>>, exit_code |-> 0,
           json_result |-> NoJson, output_file |-> NoFile]

\* what the run finds: argv, the files, the directories
input == run.input
\* position of the run, "idle" when backend/pipeline.py is not run
stage == run.stage
\* messages logged so far, in order
log == run.log
\* exit status of the process once stage is "exited"
exit_code == run.exit_code
\* value returned by process_json_files
json_result == run.json_result
\* the result file written by load
output_file == run.output_file

Init ==
    /\ file \in Files
    /\ pc = "open"
    /\ sequences = <<>>
    /\ tasks = <<>>
    /\ pending = {}
    /\ slots = <<>>
    /\ arrived = <<>>
    /\ raisedBy = 0
    /\ pool = "none"
    /\ poolsStarted = 0
    /\ sequences_results = <<>>
    /\ total_codon_count = <<>>
    /\ most_common_codon = <<>>
    /\ lcs_result = NoLcs
    /\ returned = NoRecord
    /\ error = "none"
    /\ PipelineIdle

\* process_txt_files, lines 189-196: read, strip, reject an empty list
ReadFile ==
    /\ pc = "open"
    /\ LET seqs == ReadSequences(file)
       IN IF seqs = <<>>
          THEN /\ pc' = "failed"
               /\ error' = "ValueError"
               /\ UNCHANGED sequences
          ELSE /\ pc' = "seq_pool"
               /\ sequences' = seqs
               /\ UNCHANGED error
    /\ UNCHANGED <<file, tasks, pending, slots, arrived, raisedBy, pool, poolsStarted,
                   sequences_results, total_codon_count, most_common_codon,
                   lcs_result, returned>>
    /\ UNCHANGED pipeline_vars

\* line 199-200: Pool(...) is created and pool.map dispatches every sequence
StartSequencePool ==
    /\ pc = "seq_pool"
    /\ pool' = "sequences"
    /\ poolsStarted' = poolsStarted + 1
    /\ tasks' = sequences
    /\ pending' = 1..Len(sequences)
    /\ slots' = <<>>
    /\ arrived' = <<>>
    /\ raisedBy' = 0
    /\ pc' = "seq_map"
    /\ UNCHANGED <<file, sequences, sequences_results, total_codon_count,
                   most_common_codon, lcs_result, returned, error>>
    /\ UNCHANGED pipeline_vars

\* one worker completes process_sequence on its copy of task k; once a task
\* of the map has raised the map drops every later result, so a completion
\* changes nothing then
SequenceWorker(k) ==
    /\ pc = "seq_map"
    /\ k \in pending
    /\ raisedBy = 0
    /\ pending' = pending \ {k}
    /\ slots' = StoreResult(slots, k, process_sequence(tasks[k]))
    /\ arrived' = Append(arrived, k)
    /\ UNCHANGED <<file, pc, sequences, tasks, raisedBy, pool, poolsStarted,
                   sequences_results, total_codon_count, most_common_codon,
                   lcs_result, returned, error>>
    /\ UNCHANGED pipeline_vars

\* the worker of task k raises: the unit ends without a result and the map
\* keeps the first exception as its outcome (a later one changes nothing);
\* the results stored so far and those still to come are dropped with it
SequenceWorkerFault(k) ==
    /\ pc = "seq_map"
    /\ k \in pending
    /\ raisedBy = 0
    /\ raisedBy' = k
    /\ pending' = {}
    /\ slots' = <<>>
    /\ arrived' = <<>>
    /\ UNCHANGED <<file, pc, sequences, tasks, pool, poolsStarted,
                   sequences_results, total_codon_count, most_common_codon,
                   lcs_result, returned, error>>
    /\ UNCHANGED pipeline_vars

\* line 200: pool.map re-raises the worker's exception; nothing catches it in
\* process_txt_files and leaving the with block ends the pool
RaiseFromSequenceMap ==
    /\ pc = "seq_map"
    /\ raisedBy # 0
    /\ pc' = "failed"
    /\ error' = "WorkerFault"
    /\ pool' = "none"
    /\ tasks' = <<>>
    /\ pending' = {}
    /\ slots' = <<>>
    /\ arrived' = <<>>
    /\ UNCHANGED <<file, sequences, raisedBy, poolsStarted, sequences_results,
                   total_codon_count, most_common_codon, lcs_result, returned>>
    /\ UNCHANGED pipeline_vars

\* Variant of JoinSequencePool: a raised unit is skipped and the results of
\* the other units are used
JoinSequencePool_skip ==
    /\ pc = "seq_map"
    /\ pending = {}
    /\ sequences_results' = [k \in 1..Len(arrived) |-> slots[arrived[k]]]
    /\ pool' = "none"
    /\ tasks' = <<>>
    /\ slots' = <<>>
    /\ pc' = "codon"
    /\ UNCHANGED <<file, sequences, pending, arrived, raisedBy, poolsStarted,
                   total_codon_count, most_common_codon, lcs_result, returned, error>>
    /\ UNCHANGED pipeline_vars

\* Variant of JoinSequencePool: the results are taken but the pool is not
\* closed
JoinSequencePool_open ==
    /\ pc = "seq_map"
    /\ pending = {}
    /\ raisedBy = 0
    /\ sequences_results' = MapResult(slots, Len(tasks))
    /\ tasks' = <<>>
    /\ slots' = <<>>
    /\ pc' = "codon"
    /\ UNCHANGED <<file, sequences, pending, arrived, raisedBy, pool, poolsStarted,
                   total_codon_count, most_common_codon, lcs_result, returned, error>>
    /\ UNCHANGED pipeline_vars

\* line 200: pool.map returns once every task is done; the with block ends the pool
JoinSequencePool ==
    /\ pc = "seq_map"
    /\ pending = {}
    /\ raisedBy = 0
    /\ sequences_results' = MapResult(slots, Len(tasks))
    /\ pool' = "none"
    /\ tasks' = <<>>
    /\ slots' = <<>>
    /\ pc' = "codon"
    /\ UNCHANGED <<file, sequences, pending, arrived, raisedBy, poolsStarted,
                   total_codon_count, most_common_codon, lcs_result, returned, error>>
    /\ UNCHANGED pipeline_vars

\* line 203: compute_most_frequent_codon(sequences), single-threaded
AggregateCodons ==
    /\ pc = "codon"
    /\ LET r == compute_most_frequent_codon(sequences)
       IN /\ total_codon_count' = r.table
          /\ IF r.raised
             THEN /\ pc' = "failed"
                  /\ error' = "ValueError"
                  /\ UNCHANGED most_common_codon
             ELSE /\ pc' = "lcs_call"
                  /\ most_common_codon' = r.value
                  /\ UNCHANGED error
    /\ UNCHANGED <<file, sequences, tasks, pending, slots, arrived, raisedBy, pool,
                   poolsStarted, sequences_results, lcs_result, returned>>
    /\ UNCHANGED pipeline_vars

\* compute_longest_common_subsequence, lines 112-118: the empty list returns
\* at once; otherwise the pairs are built and a pool maps process_lcs_pair
LcsCall ==
    /\ pc = "lcs_call"
    /\ IF sequences = <<>>
       THEN /\ lcs_result' = [shape |-> "record", record |-> EmptyLcs]
            /\ pc' = "lcs_done"
            /\ UNCHANGED <<tasks, pending, slots, arrived, raisedBy, pool, poolsStarted>>
       ELSE /\ tasks' = sequence_pairs(sequences)
            /\ pending' = 1..Len(sequence_pairs(sequences))
            /\ slots' = <<>>
            /\ arrived' = <<>>
            /\ raisedBy' = 0
            /\ pool' = "pairs"
            /\ poolsStarted' = poolsStarted + 1
            /\ pc' = "pair_map"
            /\ UNCHANGED lcs_result
    /\ UNCHANGED <<file, sequences, sequences_results, total_codon_count,
                   most_common_codon, returned, error>>
    /\ UNCHANGED pipeline_vars

\* one worker completes process_lcs_pair on its copy of pair k; once a task
\* of the map has raised the map drops every later result, so a completion
\* changes nothing then
PairWorker(k) ==
    /\ pc = "pair_map"
    /\ k \in pending
    /\ raisedBy = 0
    /\ pending' = pending \ {k}
    /\ slots' = StoreResult(slots, k, process_lcs_pair(tasks[k]))
    /\ arrived' = Append(arrived, k)
    /\ UNCHANGED <<file, pc, sequences, tasks, raisedBy, pool, poolsStarted,
                   sequences_results, total_codon_count, most_common_codon,
                   lcs_result, returned, error>>
    /\ UNCHANGED pipeline_vars

\* the worker of pair k raises: the unit ends without a result and the map
\* keeps the first exception (a later one changes nothing)
PairWorkerFault(k) ==
    /\ pc = "pair_map"
    /\ k \in pending
    /\ raisedBy = 0
    /\ raisedBy' = k
    /\ pending' = {}
    /\ slots' = <<>>
    /\ arrived' = <<>>
    /\ UNCHANGED <<file, pc, sequences, tasks, pool, poolsStarted,
                   sequences_results, total_codon_count, most_common_codon,
                   lcs_result, returned, error>>
    /\ UNCHANGED pipeline_vars

\* line 118: pool.map re-raises the worker's exception out of
\* compute_longest_common_subsequence and of its caller
RaiseFromPairMap ==
    /\ pc = "pair_map"
    /\ raisedBy # 0
    /\ pc' = "failed"
    /\ error' = "WorkerFault"
    /\ pool' = "none"
    /\ tasks' = <<>>
    /\ pending' = {}
    /\ slots' = <<>>
    /\ arrived' = <<>>
    /\ UNCHANGED <<file, sequences, raisedBy, poolsStarted, sequences_results,
                   total_codon_count, most_common_codon, lcs_result, returned>>
    /\ UNCHANGED pipeline_vars

\* Variant of JoinPairPool: the aggregation consumes the results present,
\* without waiting for the pairs still pending
JoinPairPool_early ==
    /\ pc = "pair_map"
    /\ raisedBy = 0
    /\ lcs_result' = resolve_lcs([k \in 1..Len(arrived) |-> slots[arrived[k]]], sequences)
    /\ pool' = "none"
    /\ tasks' = <<>>
    /\ slots' = <<>>
    /\ pc' = "lcs_done"
    /\ UNCHANGED <<file, sequences, pending, arrived, raisedBy, poolsStarted,
                   sequences_results, total_codon_count, most_common_codon,
                   returned, error>>
    /\ UNCHANGED pipeline_vars

\* lines 118-162: the map returns after the last pair, then the aggregation
JoinPairPool ==
    /\ pc = "pair_map"
    /\ pending = {}
    /\ raisedBy = 0
    /\ lcs_result' = resolve_lcs(MapResult(slots, Len(tasks)), sequences)
    /\ pool' = "none"
    /\ tasks' = <<>>
    /\ slots' = <<>>
    /\ pc' = "lcs_done"
    /\ UNCHANGED <<file, sequences, pending, arrived, raisedBy, poolsStarted,
                   sequences_results, total_codon_count, most_common_codon,
                   returned, error>>
    /\ UNCHANGED pipeline_vars

\* process_txt_files, lines 206-212: assemble and return the record
Assemble ==
    /\ pc = "lcs_done"
    /\ returned' = [kind |-> "record",
                    sequences |-> sequences_results,
                    most_common_codon |-> most_common_codon,
                    lcs |-> lcs_result]
    /\ pc' = "done"
    /\ UNCHANGED <<file, sequences, tasks, pending, slots, arrived, raisedBy, pool,
                   poolsStarted, sequences_results, total_codon_count,
                   most_common_codon, lcs_result, error>>
    /\ UNCHANGED pipeline_vars

MaxTasks == (MaxFileLen + 1) * (MaxFileLen + 1)

Next ==
    \/ ReadFile
    \/ StartSequencePool
    \/ \E k \in 1..MaxTasks : SequenceWorker(k)
    \/ \E k \in 1..MaxTasks : SequenceWorkerFault(k)
    \/ RaiseFromSequenceMap
    \/ JoinSequencePool
    \/ AggregateCodons
    \/ LcsCall
    \/ \E k \in 1..MaxTasks : PairWorker(k)
    \/ \E k \in 1..MaxTasks : PairWorkerFault(k)
    \/ RaiseFromPairMap
    \/ JoinPairPool
    \/ Assemble

\* process_txt_files(txt_file_path) on every file of at most MaxFileLen characters
Spec == Init /\ [][Next]_vars

\* ------------------------------------------- direct calls of the LCS engine
\* compute_longest_common_subsequence(sequences) called on its own
InitLcsWith(arg) ==
    /\ sequences = arg
    /\ pc = "lcs_call"
    /\ file = <<>>
    /\ tasks = <<>>
    /\ pending = {}
    /\ slots = <<>>
    /\ arrived = <<>>
    /\ raisedBy = 0
    /\ pool = "none"
    /\ poolsStarted = 0
    /\ sequences_results = <<>>
    /\ total_codon_count = <<>>
    /\ most_common_codon = <<>>
    /\ lcs_result = NoLcs
    /\ returned = NoRecord
    /\ error = "none"
    /\ PipelineIdle

\* every list the reader can produce from a file, the empty list included
InitLcs == \E arg \in {ReadSequences(f) : f \in Files} : InitLcsWith(arg)

\* WideSeqs sequences of WideLen characters each
InitLcsWide == \E arg \in [1..WideSeqs -> [1..WideLen -> Alphabet]] : InitLcsWith(arg)

NextLcs ==
    \/ LcsCall
    \/ \E k \in 1..MaxTasks : PairWorker(k)
    \/ \E k \in 1..MaxTasks : PairWorkerFault(k)
    \/ RaiseFromPairMap
    \/ JoinPairPool

SpecLcs == InitLcs /\ [][NextLcs]_vars

SpecLcsWide == InitLcsWide /\ [][NextLcs]_vars

\* ------------------------------------------- process_sequence called alone
\* characters of a sequence handed to process_sequence: the two bases counted
\* by calc_gc_content, another base, and a lower-case letter
SeqAlphabet == {"A", "C", "G", "c"}

Seqs == UNION {[1..n -> SeqAlphabet] : n \in 1..MaxSeqLen}

InitSeq ==
    /\ sequences \in {<<s>> : s \in Seqs}
    /\ pc = "seq_call"
    /\ file = <<>>
    /\ tasks = <<>>
    /\ pending = {}
    /\ slots = <<>>
    /\ arrived = <<>>
    /\ raisedBy = 0
    /\ pool = "none"
    /\ poolsStarted = 0
    /\ sequences_results = <<>>
    /\ total_codon_count = <<>>
    /\ most_common_codon = <<>>
    /\ lcs_result = NoLcs
    /\ returned = NoRecord
    /\ error = "none"
    /\ PipelineIdle

CallProcessSequence ==
    /\ pc = "seq_call"
    /\ sequences_results' = <<process_sequence(sequences[1])>>
    /\ pc' = "seq_returned"
    /\ UNCHANGED <<file, sequences, tasks, pending, slots, arrived, raisedBy,
                   pool, poolsStarted, total_codon_count, most_common_codon,
                   lcs_result, returned, error>>
    /\ UNCHANGED pipeline_vars

NextSeq == CallProcessSequence

SpecSeq == InitSeq /\ [][NextSeq]_vars

\* ------------------------------------------- process_lcs_pair called alone
PairSeqs == UNION {[1..n -> Alphabet] : n \in 1..MaxPairSeqLen}

InitPair ==
    /\ tasks \in {<<pair>> : pair \in PairSeqs \X PairSeqs}
    /\ pc = "pair_call"
    /\ file = <<>>
    /\ sequences = <<>>
    /\ pending = {}
    /\ slots = <<>>
    /\ arrived = <<>>
    /\ raisedBy = 0
    /\ pool = "none"
    /\ poolsStarted = 0
    /\ sequences_results = <<>>
    /\ total_codon_count = <<>>
    /\ most_common_codon = <<>>
    /\ lcs_result = NoLcs
    /\ returned = NoRecord
    /\ error = "none"
    /\ PipelineIdle

CallProcessLcsPair ==
    /\ pc = "pair_call"
    /\ slots' = (1 :> process_lcs_pair(tasks[1]))
    /\ pc' = "pair_returned"
    /\ UNCHANGED <<file, sequences, tasks, pending, arrived, raisedBy, pool,
                   poolsStarted, sequences_results, total_codon_count,
                   most_common_codon, lcs_result, returned, error>>
    /\ UNCHANGED pipeline_vars

NextPair == CallProcessLcsPair

SpecPair == InitPair /\ [][NextPair]_vars

\* ------------------------------------- files of whole codons, one per line
ScenarioLines == {<<"A", "A", "A">>, <<"C", "C", "C">>}

\* the files of 1..ScenarioSeqs lines, each line one of ScenarioLines
ScenarioFiles ==
    UNION {{Join(<<NL>>, lines) : lines \in [1..n -> ScenarioLines]} : n \in 1..ScenarioSeqs}

InitScenario ==
    /\ file \in ScenarioFiles
    /\ pc = "open"
    /\ sequences = <<>>
    /\ tasks = <<>>
    /\ pending = {}
    /\ slots = <<>>
    /\ arrived = <<>>
    /\ raisedBy = 0
    /\ pool = "none"
    /\ poolsStarted = 0
    /\ sequences_results = <<>>
    /\ total_codon_count = <<>>
    /\ most_common_codon = <<>>
    /\ lcs_result = NoLcs
    /\ returned = NoRecord
    /\ error = "none"
    /\ PipelineIdle

\* process_txt_files(txt_file_path) on every file of ScenarioFiles
SpecScenario == InitScenario /\ [][Next]_vars

\* ------------------------------------------------------ backend/pipeline.py
\* A path is a sequence of components and "/" separators; <<>> is a path
\* that is missing or empty (both are false in Python).
Slash == "/"

\* Python: path.rstrip('/')
RECURSIVE rstrip_slash(_)
rstrip_slash(path) ==
    IF path # <<>> /\ path[Len(path)] = Slash
    THEN rstrip_slash(SubSeq(path, 1, Len(path) - 1)) ELSE path

\* index of the last "/" of the path, 0 when there is none
LastSlash(path) ==
    IF \E k \in 1..Len(path) : path[k] = Slash
    THEN CHOOSE k \in 1..Len(path) :
             path[k] = Slash /\ \A m \in (k + 1)..Len(path) : path[m] # Slash
    ELSE 0

\* Python: os.path.dirname(path), os.path.basename(path)
dirname(path) == rstrip_slash(SubSeq(path, 1, LastSlash(path)))
basename(path) == SubSeq(path, LastSlash(path) + 1, Len(path))

\* Python: path.endswith(suffix)
endswith(path, suffix) ==
    /\ Len(suffix) <= Len(path)
    /\ SubSeq(path, Len(path) - Len(suffix) + 1, Len(path)) = suffix

\* names that are a UUID, and names that hold one after other characters
UuidNames == {"u1", "u2"}
NoUuid == "None"

\* is_valid_uuid: re.search finds a UUID anywhere in the name and returns it
is_valid_uuid(name) ==
    IF name \in UuidNames THEN name
    ELSE IF name = "pu1" THEN "u1"
    ELSE NoUuid

extract_uuid_from_path(path) ==
    LET last_component == basename(rstrip_slash(path))
    IN IF last_component = <<>> THEN NoUuid ELSE is_valid_uuid(last_component[1])

\* Python: os.path.exists(path) for a directory path
path_exists(path, dirs) == rstrip_slash(path) \in dirs

\* validate_input_file: "ok", or the exception raised and its message
validate_input_file(input_data, dirs) ==
    LET context_path == input_data.context_path
        results_path == input_data.results_path
    IN IF context_path = <<>> \/ ~path_exists(context_path, dirs)
       THEN [raised |-> "FileNotFoundError", msg |-> "Invalid or missing context path"]
       ELSE IF results_path = <<>>
       THEN [raised |-> "ValueError", msg |-> "Results path is not specified."]
       ELSE IF ~endswith(results_path, <<Slash, "out", Slash>>)
       THEN [raised |-> "ValueError", msg |-> "does not end with '/out/'"]
       ELSE IF dirname(rstrip_slash(results_path)) # rstrip_slash(context_path)
       THEN [raised |-> "ValueError", msg |-> "must share the same base directory"]
       ELSE IF extract_uuid_from_path(context_path) = NoUuid
       THEN [raised |-> "ValueError", msg |-> "Last component must be a valid UUID"]
       ELSE [raised |-> "none", msg |-> ""]

\* A file name is <<participant id, "_dna." or ".", extension>>.
\* extract_file_names: file_name.split('_dna.') must give two parts, the
\* second one txt or json
extract_file_names(file_name) ==
    IF file_name[2] = "_dna." /\ file_name[3] \in {"txt", "json"}
    THEN [raised |-> "none", participant_id |-> file_name[1], extension |-> file_name[3]]
    ELSE [raised |-> "ValueError", participant_id |-> "", extension |-> ""]

\* the per-file loop of validate_context_path_files: the first file, in
\* listing order, that breaks a rule decides the error
RECURSIVE check_files(_, _)
check_files(files, k) ==
    IF k > Len(files) THEN [raised |-> "none", msg |-> ""]
    ELSE IF files[k][3] \notin {"txt", "json"}
    THEN [raised |-> "ValueError", msg |-> "does not end with '.txt' or '.json'."]
    ELSE IF extract_file_names(files[k]).raised # "none"
    THEN [raised |-> "ValueError", msg |-> "Invalid file naming format"]
    ELSE IF is_valid_uuid(files[k][1]) = NoUuid
    THEN [raised |-> "ValueError", msg |-> "Invalid participant ID in file name"]
    ELSE check_files(files, k + 1)

\* body of validate_context_path_files(context_path) on the directory's files
validate_context_path_files(context_path, files) ==
    LET per_file == check_files(files, 1)
        participant_id_set == {files[k][1] : k \in 1..Len(files)}
        participant_id == files[Len(files)][1]
        extensions == {files[k][3] : k \in 1..Len(files)}
    IN IF Len(files) # 2
       THEN [raised |-> "ValueError", msg |-> "Expected exactly 2 files"]
       ELSE IF per_file.raised # "none" THEN per_file
       ELSE IF Cardinality(participant_id_set) # 1
       THEN [raised |-> "ValueError", msg |-> "do not share the same participant ID"]
       ELSE IF extract_uuid_from_path(context_path) # participant_id
       THEN [raised |-> "ValueError",
             msg |-> "Context path UUID and participant ID do not match."]
       ELSE IF "txt" \notin extensions \/ "json" \notin extensions
       THEN [raised |-> "ValueError", msg |-> "Missing .txt or .json file"]
       ELSE [raised |-> "none", msg |-> ""]

\* number of parameters validate_context_path_files is defined with
validate_context_path_files_params == 1

\* the arguments extract passes to validate_context_path_files
extract_call_args(data) == <<data.context_path, data.results_path>>

\* ------------------------------------------- validate_and_process_json.py
\* A metadata document is described by what the validators look at: the
\* length of its longest string, its date fields in document order, the
\* presence of individual_metadata.date_of_birth, the participant's age in
\* days at the time of the run, and its top-level keys.
MaxFieldLen == 64
StartDate == 20140101
EndDate == 20241231
MinAge == 40
DaysPerYear == 365

validate_fields_length(doc) ==
    IF doc.longest > MaxFieldLen
    THEN [raised |-> "ValueError", msg |-> "exceeds 64 characters"]
    ELSE [raised |-> "none", msg |-> ""]

\* a date is [format_ok, ymd]; ymd is the integer yyyymmdd
RECURSIVE validate_dates(_, _)
validate_dates(dates, k) ==
    IF k > Len(dates) THEN [raised |-> "none", msg |-> ""]
    ELSE IF ~dates[k].format_ok
    THEN [raised |-> "ValueError", msg |-> "Invalid date format"]
    ELSE IF ~(StartDate <= dates[k].ymd /\ dates[k].ymd <= EndDate)
    THEN [raised |-> "ValueError", msg |-> "is out of range."]
    ELSE validate_dates(dates, k + 1)

validate_participants_age(doc) ==
    IF doc.has_dob
    THEN IF doc.age_days \div DaysPerYear < MinAge
         THEN [raised |-> "ValueError", msg |-> "is less than 40 years old."]
         ELSE [raised |-> "none", msg |-> ""]
    ELSE [raised |-> "ValueError", msg |-> "Missing 'individual_metadata' or 'date_of_birth'"]

\* keys starting with '_' are dropped
remove_sensitive_fields(doc) ==
    [kind |-> "json", keys |-> {key \in doc.keys : Head(key) # "_"}]

\* process_json_files: field lengths, then dates, then age, then cleaning
process_json_files(doc) ==
    LET lengths == validate_fields_length(doc)
        dates == validate_dates(doc.dates, 1)
        age == validate_participants_age(doc)
    IN IF lengths.raised # "none" THEN lengths @@ [data |-> NoJson]
       ELSE IF dates.raised # "none" THEN dates @@ [data |-> NoJson]
       ELSE IF age.raised # "none" THEN age @@ [data |-> NoJson]
       ELSE [raised |-> "none", msg |-> "", data |-> remove_sensitive_fields(doc)]

\* ----------------------------------------------- inputs of a pipeline run
ContextDir == <<"t", Slash, "u1">>
ValidContextPath == ContextDir \o <<Slash>>
ValidResultsPath == ValidContextPath \o <<"out", Slash>>

ContextPaths ==
    {<<>>, ValidContextPath, ContextDir, <<"t", Slash, "x", Slash>>,
     <<"t", Slash, "u2", Slash>>, <<"t", Slash, "pu1", Slash>>}

ResultsPaths ==
    {<<>>, ValidResultsPath, ContextDir \o <<Slash, "out">>,
     ContextDir \o <<Slash, "res", Slash>>, <<"t", Slash, "u2", Slash, "out", Slash>>,
     <<"t", Slash, "out", Slash>>}

DirSets ==
    SUBSET {ContextDir, <<"t", Slash, "x">>, <<"t", Slash, "u2">>,
            <<"t", Slash, "pu1">>, ContextDir \o <<Slash, "out">>}

TxtName == <<"u1", "_dna.", "txt">>
JsonName == <<"u1", "_dna.", "json">>

FileNames ==
    {TxtName, JsonName, <<"u2", "_dna.", "txt">>, <<"u2", "_dna.", "json">>,
     <<"bad", "_dna.", "json">>, <<"u1", ".", "json">>, <<"u1", "_dna.", "js">>}

\* directory listings: one to three different files, in any order
Listings ==
    {files \in UNION {[1..n -> FileNames] : n \in 1..3} :
        \A i, j \in 1..Len(files) : i # j => files[i] # files[j]}

Dates ==
    {[format_ok |-> TRUE, ymd |-> d] :
        d \in {StartDate - 8870, StartDate, EndDate, EndDate + 8870}}
        \cup {[format_ok |-> FALSE, ymd |-> 0]}

ValidDate == [format_ok |-> TRUE, ymd |-> StartDate]

Docs ==
    [longest : {MaxFieldLen, MaxFieldLen + 1},
     dates : {<<d>> : d \in Dates} \cup {<<ValidDate, d>> : d \in Dates},
     has_dob : BOOLEAN,
     age_days : {MinAge * DaysPerYear - 1, MinAge * DaysPerYear},
     keys : {{<<"_", "i", "d">>, <<"s", "e", "x">>}}]

ValidDoc ==
    [longest |-> MaxFieldLen, dates |-> <<ValidDate>>, has_dob |-> TRUE,
     age_days |-> MinAge * DaysPerYear,
     keys |-> {<<"_", "i", "d">>, <<"s", "e", "x">>}]

ValidTxt == <<"A", "A", "C", NL, "A", "A", "C">>

\* sequence files a run may find: valid ones, an empty one, one whose
\* single sequence is shorter than a codon
StageFiles == {ValidTxt, <<"A", "A", "A">>, <<>>, <<"A">>}

ValidInput ==
    [argv |-> TRUE, file_exists |-> TRUE, decodes |-> TRUE,
     data |-> [context_path |-> ValidContextPath, results_path |-> ValidResultsPath],
     dirs |-> {ContextDir},
     files |-> <<TxtName, JsonName>>,
     doc |-> ValidDoc,
     txt |-> ValidTxt]

\* the valid input, and every input that differs from it in one respect
Inputs ==
    {[ValidInput EXCEPT !.argv = b] : b \in BOOLEAN}
    \cup {[ValidInput EXCEPT !.file_exists = b] : b \in BOOLEAN}
    \cup {[ValidInput EXCEPT !.decodes = b] : b \in BOOLEAN}
    \cup {[ValidInput EXCEPT !.data.context_path = c] : c \in ContextPaths}
    \cup {[ValidInput EXCEPT !.data.results_path = r] : r \in ResultsPaths}
    \cup {[ValidInput EXCEPT !.data = [context_path |-> c \o <<Slash>>,
                                      results_path |-> c \o <<Slash, "out", Slash>>],
                             !.dirs = {c}] :
             c \in {<<"t", Slash, "x">>, <<"t", Slash, "u2">>, <<"t", Slash, "pu1">>}}
    \cup {[ValidInput EXCEPT !.dirs = d] : d \in DirSets}
    \cup {[ValidInput EXCEPT !.files = f] : f \in Listings}
    \cup {[ValidInput EXCEPT !.doc = d] : d \in Docs}
    \cup {[ValidInput EXCEPT !.txt = t] : t \in StageFiles}

\* ----------------------------------------------- backend/pipeline.py, main
\* A log entry is <<message, detail>>; the detail is the text of the
\* exception or of the rule the message reports, "" when there is none.
Entry(message, detail) == <<message, detail>>

\* logging followed by sys.exit(code)
Exit(code, entries) ==
    run' = [run EXCEPT !.log = @ \o entries, !.exit_code = code, !.stage = "exited"]

\* logging, then the run goes on at next_stage
Advance(next_stage, entries) ==
    run' = [run EXCEPT !.log = @ \o entries, !.stage = next_stage]

\* main's handlers: except ValueError, except FileNotFoundError, except Exception
main_except(raised, msg) ==
    IF raised = "ValueError"
    THEN <<Entry("Validation Error", msg),
           Entry("Pipeline exiting due to validation error", "")>>
    ELSE IF raised = "FileNotFoundError"
    THEN <<Entry("File Error", msg),
           Entry("Pipeline exiting due to validation error", "")>>
    ELSE <<Entry("Unexpected Error", msg),
           Entry("Pipeline exiting due to an unexpected error", "")>>

\* the except ValueError clause of extract and of transform
stage_except == <<Entry("Exiting the pipeline due to validation error", "")>>

\* the sequence-file engine before process_txt_files is called
EngineIdle ==
    /\ file = <<>>
    /\ pc = "idle"
    /\ sequences = <<>>
    /\ tasks = <<>>
    /\ pending = {}
    /\ slots = <<>>
    /\ arrived = <<>>
    /\ raisedBy = 0
    /\ pool = "none"
    /\ poolsStarted = 0
    /\ sequences_results = <<>>
    /\ total_codon_count = <<>>
    /\ most_common_codon = <<>>
    /\ lcs_result = NoLcs
    /\ returned = NoRecord
    /\ error = "none"

\* main, lines 150-158: the argument check
MainStart ==
    /\ stage = "main"
    /\ IF input.argv
       THEN Advance("extract", <<Entry("ETL pipeline started.", "")>>)
       ELSE Exit(1, <<Entry("ETL pipeline started.", ""),
                      Entry("Input JSON file is required as an argument.", "")>>
                    \o main_except("ValueError",
                                   "Input JSON file is required as an argument."))
    /\ UNCHANGED engine_vars

\* extract, lines 30-40: the input file is opened and decoded
ExtractOpen ==
    /\ stage = "extract"
    /\ IF ~input.file_exists
       THEN Exit(1, <<Entry("Starting the extract stage", ""),
                      Entry("Input file not found", "")>>
                    \o main_except("FileNotFoundError", "Input file not found"))
       ELSE IF ~input.decodes
       THEN Exit(1, <<Entry("Starting the extract stage", "")>> \o stage_except)
       ELSE Advance("validate_input", <<Entry("Starting the extract stage", "")>>)
    /\ UNCHANGED engine_vars

\* extract, lines 43-44: validate_input_file and what catches its exception
ValidateInputFile ==
    /\ stage = "validate_input"
    /\ LET r == validate_input_file(input.data, input.dirs)
           failed == <<Entry("Validating input JSON structure.", ""),
                       Entry("Input validation failed", r.msg)>>
       IN IF r.raised = "ValueError"
          THEN Exit(1, failed \o stage_except)
          ELSE IF r.raised # "none"
          THEN Exit(1, failed \o main_except(r.raised, r.msg))
          ELSE Advance("validate_files",
                       <<Entry("Validating input JSON structure.", ""),
                         Entry("Validation successful for context_path", ""),
                         Entry("Validated paths", "")>>)
    /\ UNCHANGED engine_vars

\* extract, lines 46-47: validate_context_path_files is called with the
\* arguments of extract_call_args; a call whose argument count differs from
\* the parameter count raises TypeError before the body runs
ValidateContextPathFiles ==
    /\ stage = "validate_files"
    /\ LET args == extract_call_args(input.data)
           r == validate_context_path_files(args[1], input.files)
       IN IF Len(args) # validate_context_path_files_params
          THEN Exit(1, main_except("TypeError", "takes 1 positional argument but 2 were given"))
          ELSE IF r.raised # "none"
          THEN Exit(1, <<Entry(r.msg, "")>> \o stage_except)
          ELSE Advance("transform",
                       <<Entry("Validation successful for files", ""),
                         Entry("Validated participant files", "")>>)
    /\ UNCHANGED engine_vars

\* python backend/pipeline.py <input_json>, on every input of Inputs
InitPipeline ==
    /\ run \in {[input |-> i, stage |-> "main", log |-> <<>>, exit_code |-> 0,
                 json_result |-> NoJson, output_file |-> NoFile] : i \in Inputs}
    /\ EngineIdle

NextPipeline ==
    \/ MainStart
    \/ ExtractOpen
    \/ ValidateInputFile
    \/ ValidateContextPathFiles

SpecPipeline == InitPipeline /\ [][NextPipeline]_vars

\* ------------------------------------- backend/pipeline.py, transform, load
\* the dictionary validate_context_path_files returns: extension -> file
participant_files(files) ==
    [ext \in {files[k][3] : k \in 1..Len(files)} |->
        files[CHOOSE k \in 1..Len(files) :
                  files[k][3] = ext /\ \A m \in (k + 1)..Len(files) : files[m][3] # ext]]

\* load, lines 105-107: the file name without extension and without "_dna"
participant_id_of(file_name) == file_name[1]

\* transform, lines 64-76: the metadata file is validated and cleaned
TransformJson ==
    /\ stage = "transform"
    /\ LET r == process_json_files(input.doc)
           started == <<Entry("Starting the Transform stage.", ""),
                        Entry("Validating JSON file", "")>>
       IN IF r.raised # "none"
          THEN Exit(1, started \o <<Entry(r.msg, "")>> \o stage_except)
          ELSE run' = [run EXCEPT
                          !.json_result = r.data,
                          !.log = @ \o started
                                    \o <<Entry("JSON file validation and processing complete.", "")>>,
                          !.stage = "transform_txt"]
    /\ UNCHANGED engine_vars

\* transform, line 80: process_txt_files is called on the sequence file
TransformTxtCall ==
    /\ stage = "transform_txt"
    /\ pc = "idle"
    /\ file' = input.txt
    /\ pc' = "open"
    /\ run' = [run EXCEPT !.stage = "txt_running"]
    /\ UNCHANGED <<sequences, tasks, pending, slots, arrived, raisedBy, pool,
                   poolsStarted, sequences_results, total_codon_count,
                   most_common_codon, lcs_result, returned, error>>

\* transform, lines 81-88: process_txt_files returned its record
TransformTxtReturn ==
    /\ stage = "txt_running"
    /\ pc = "done"
    /\ Advance("load", <<Entry("Transform stage completed successfully.", "")>>)
    /\ UNCHANGED engine_vars

\* variant: the exception of process_txt_files is swallowed and the run
\* goes on to the Load stage
TransformTxtRaise_continue ==
    /\ stage = "txt_running"
    /\ pc = "failed"
    /\ Advance("load", stage_except)
    /\ UNCHANGED engine_vars

\* transform, lines 83-85, and main, lines 178-181: process_txt_files raised;
\* ValueError is caught in transform, anything else in main
TransformTxtRaise ==
    /\ stage = "txt_running"
    /\ pc = "failed"
    /\ IF error = "ValueError"
       THEN Exit(1, stage_except)
       ELSE Exit(1, main_except(error, "worker failed"))
    /\ UNCHANGED engine_vars

\* load, lines 91-136: the merged result is written to
\* <results_path>/<participant_id>.json, the directory being created first
\* when it does not exist
Load ==
    /\ stage = "load"
    /\ LET results_path == input.data.results_path
           participant_id == participant_id_of(participant_files(input.files)["txt"])
           creating == IF path_exists(results_path, input.dirs) THEN <<>>
                       ELSE <<Entry("creating results directory", "")>>
       IN run' = [run EXCEPT
                     !.input.dirs = @ \cup {rstrip_slash(results_path)},
                     !.output_file =
                         [kind |-> "file",
                          path |-> results_path \o <<participant_id, ".json">>,
                          metadata |-> [context_path |-> input.data.context_path,
                                        results_path |-> results_path],
                          results |-> [participant |-> participant_id,
                                       txt |-> returned,
                                       JSON |-> json_result]],
                     !.log = @ \o <<Entry("Starting the Load stage.", "")>> \o creating
                               \o <<Entry("Load stage completed successfully.", "")>>,
                     !.stage = "finish"]
    /\ UNCHANGED engine_vars

\* load: os.makedirs or open raises OSError, caught by main's except Exception
LoadFault ==
    /\ stage = "load"
    /\ Exit(1, <<Entry("Starting the Load stage.", "")>>
               \o main_except("OSError", "cannot write"))
    /\ UNCHANGED engine_vars

\* main, line 166: the run is complete, the process ends with status 0
MainFinish ==
    /\ stage = "finish"
    /\ Exit(0, <<Entry("ETL pipeline completed successfully.", "")>>)
    /\ UNCHANGED engine_vars

\* what extract has logged when it returns to main
ExtractLog ==
    <<Entry("ETL pipeline started.", ""),
      Entry("Starting the extract stage", ""),
      Entry("Validating input JSON structure.", ""),
      Entry("Validation successful for context_path", ""),
      Entry("Validated paths", ""),
      Entry("Validation successful for files", ""),
      Entry("Validated participant files", "")>>

\* main at line 162, extract having returned for a valid directory: every
\* metadata document of Docs, every sequence file of StageFiles, the results
\* directory existing or not
InitAfterExtract ==
    /\ run \in {[input |-> [ValidInput EXCEPT !.doc = d, !.txt = t, !.dirs = ds],
                  stage |-> "transform", log |-> ExtractLog, exit_code |-> 0,
                  json_result |-> NoJson, output_file |-> NoFile] :
                     d \in Docs, t \in StageFiles,
                     ds \in {{ContextDir}, {ContextDir, ContextDir \o <<Slash, "out">>}}}
    /\ EngineIdle

InitStages == InitPipeline \/ InitAfterExtract

NextStages ==
    \/ NextPipeline
    \/ TransformJson
    \/ TransformTxtCall
    \/ Next
    \/ TransformTxtReturn
    \/ TransformTxtRaise
    \/ Load
    \/ LoadFault
    \/ MainFinish

\* the stages of main from its entry, and from the return of extract
SpecStages == InitStages /\ [][NextStages]_vars

\* ================================================================ claims
\* Vocabulary of the claims, defined without the engine's operators.
Substrings(s) == {SubSeq(s, i, j) : i \in 1..(Len(s) + 1), j \in 0..Len(s)}

CommonSubstrings(a, b) == Substrings(a) \cap Substrings(b)

SetMax(S) == CHOOSE v \in S : \A w \in S : w <= v

LongestCommonLen(a, b) == SetMax({Len(w) : w \in CommonSubstrings(a, b)})

IndexPairs(n) == {p \in (1..n) \X (1..n) : p[1] < p[2]}

\* maximum, over all index pairs, of the longest common substring length
MaxPairLen(seqs) ==
    SetMax({0} \cup {LongestCommonLen(seqs[p[1]], seqs[p[2]]) : p \in IndexPairs(Len(seqs))})

\* 1-based indices of the sequences that contain w
Occurrences(w, seqs) == {k \in 1..Len(seqs) : w \in Substrings(seqs[k])}

Range(f) == {f[k] : k \in DOMAIN f}

\* the LcsCandidate records of a result, whatever its shape
ResultRecords(res) ==
    IF res.shape = "record" THEN {res.record}
    ELSE IF res.shape = "mapping" THEN {res.items[k].val : k \in 1..Len(res.items)}
    ELSE {}

\* C1: every completed pair worker holds a string that is a contiguous
\* substring of both sequences of its pair, and no strictly longer string is
\* a contiguous substring of both.
C1_LongestCommonSubstring ==
    pc = "pair_map" =>
        \A k \in DOMAIN slots :
            /\ slots[k] \in CommonSubstrings(tasks[k][1], tasks[k][2])
            /\ \A w \in CommonSubstrings(tasks[k][1], tasks[k][2]) : Len(w) <= Len(slots[k])

\* the pair ("ACA", "AA"): the longest common subsequence "AA" is not
\* contiguous in "ACA", and the worker answered "A"
C1_Witness ==
    /\ pc = "pair_map"
    /\ \E k \in DOMAIN slots :
           /\ tasks[k] = << <<"A", "C", "A">>, <<"A", "A">> >>
           /\ slots[k] = <<"A">>

\* C2: when some pair shares a character, every value of the result has the
\* length of the longest common substring over all index pairs i < j.
C2_LengthIsPairMaximum ==
    (pc = "lcs_done" /\ MaxPairLen(sequences) > 0) =>
        /\ ResultRecords(lcs_result) # {}
        /\ \A r \in ResultRecords(lcs_result) : Len(r.value) = MaxPairLen(sequences)

\* a tied result over three sequences that share characters
C2_Witness ==
    /\ pc = "lcs_done"
    /\ Len(sequences) = 3
    /\ lcs_result.shape = "mapping"
    /\ MaxPairLen(sequences) > 0

\* C3: the 'sequences' list of every record with a non-empty value lists
\* exactly the 1-based indices of all input sequences containing the value.
C3_AllContainingIndices ==
    pc = "lcs_done" =>
        \A r \in ResultRecords(lcs_result) :
            r.value # <<>> =>
                /\ Range(r.sequences) = Occurrences(r.value, sequences)
                /\ Len(r.sequences) = Cardinality(Occurrences(r.value, sequences))

\* a value contained in three sequences: more than the pair that found it
C3_Witness ==
    /\ pc = "lcs_done"
    /\ lcs_result.shape = "record"
    /\ lcs_result.record.value # <<>>
    /\ Len(lcs_result.record.sequences) = 3

\* strings of the maximum pair length that are common to at least one pair
MaxLenCommon(seqs) ==
    {w \in UNION {CommonSubstrings(seqs[p[1]], seqs[p[2]]) : p \in IndexPairs(Len(seqs))} :
        Len(w) = MaxPairLen(seqs)}

\* C4: no string of the maximum length that is common to some pair occurs in
\* strictly more sequences than a returned value.
C4_BestSubstring ==
    (pc = "lcs_done" /\ MaxPairLen(sequences) > 0) =>
        \A r \in ResultRecords(lcs_result) :
            \A w \in MaxLenCommon(sequences) :
                Cardinality(Occurrences(w, sequences))
                    <= Cardinality(Occurrences(r.value, sequences))

\* the per-pair winners of maximum length (the candidate set of the engine)
PairWinners(seqs) ==
    LET longest == MaxPairLen(seqs)
    IN {w \in {find_lcs_of_two(seqs[p[1]], seqs[p[2]]) : p \in IndexPairs(Len(seqs))} :
           w # <<>> /\ Len(w) = longest}

\* the candidates that attain the highest occurrence count
TopWinners(seqs) ==
    LET winners == PairWinners(seqs)
    IN {c \in winners :
           \A d \in winners :
               Cardinality(Occurrences(d, seqs)) <= Cardinality(Occurrences(c, seqs))}

\* C5: with at least one candidate, the result is a single record exactly
\* when one candidate attains the highest occurrence count; otherwise it is a
\* mapping of at least two entries, each tied candidate's value mapped to its
\* own record, all of one length and one number of indices.
C5_SingleOrTied ==
    (pc = "lcs_done" /\ PairWinners(sequences) # {}) =>
      LET top == TopWinners(sequences)
      IN
        /\ lcs_result.shape = "record" <=> Cardinality(top) = 1
        /\ lcs_result.shape = "record" =>
               lcs_result.record.value \in top
        /\ lcs_result.shape # "record" =>
               /\ lcs_result.shape = "mapping"
               /\ Len(lcs_result.items) >= 2
               /\ Len(lcs_result.items) = Cardinality(top)
               /\ {lcs_result.items[k].key : k \in 1..Len(lcs_result.items)}
                      = top
               /\ \A k \in 1..Len(lcs_result.items) :
                      /\ lcs_result.items[k].val.value = lcs_result.items[k].key
                      /\ lcs_result.items[k].val.sequences # <<>>
                      /\ \A m \in 1..Len(lcs_result.items) :
                             /\ lcs_result.items[k].val.length
                                    = lcs_result.items[m].val.length
                             /\ Len(lcs_result.items[k].val.sequences)
                                    = Len(lcs_result.items[m].val.sequences)

\* two candidates tie on length and occurrence count: a two-entry mapping
C5_Witness ==
    /\ pc = "lcs_done"
    /\ lcs_result.shape = "mapping"
    /\ Len(lcs_result.items) = 2
    /\ lcs_result.items[1].key # lcs_result.items[2].key

\* no two sequences of the list share a character
NoSharedCharacter(seqs) ==
    \A p \in IndexPairs(Len(seqs)) : Range(seqs[p[1]]) \cap Range(seqs[p[2]]) = {}

\* C6: with fewer than 2 sequences, or when no two sequences share any
\* character, the result is the empty record.
C6_EmptyResult ==
    (pc = "lcs_done" /\ (Len(sequences) < 2 \/ NoSharedCharacter(sequences))) =>
        lcs_result = [shape |-> "record",
                      record |-> [value |-> <<>>, sequences |-> <<>>, length |-> 0]]

\* two sequences without a common character went through the pair map
C6_Witness ==
    /\ pc = "lcs_done"
    /\ Len(sequences) = 2
    /\ NoSharedCharacter(sequences)
    /\ poolsStarted = 1

\* complete 3-character windows of the sequences: <<i, k>> is window k
\* (0-based, aligned to offset 0) of sequence i
CodonPositions(seqs) ==
    {p \in (1..Len(seqs)) \X (0..MaxFileLen) : 3 * p[2] + 3 <= Len(seqs[p[1]])}

CodonAt(seqs, p) == SubSeq(seqs[p[1]], 3 * p[2] + 1, 3 * p[2] + 3)

CodonTotal(seqs, c) == Cardinality({p \in CodonPositions(seqs) : CodonAt(seqs, p) = c})

\* the codons whose count summed over all sequences is the maximum
MostFrequentCodons(seqs) ==
    {c \in {CodonAt(seqs, p) : p \in CodonPositions(seqs)} :
        \A q \in CodonPositions(seqs) : CodonTotal(seqs, CodonAt(seqs, q)) <= CodonTotal(seqs, c)}

\* p is scanned before q: earlier sequence, or earlier window of the same one
ScannedBefore(p, q) == p[1] < q[1] \/ (p[1] = q[1] /\ p[2] < q[2])

\* codon c is first encountered before codon d
FirstSeenBefore(seqs, c, d) ==
    \E p \in CodonPositions(seqs) :
        /\ CodonAt(seqs, p) = c
        /\ \A q \in CodonPositions(seqs) : CodonAt(seqs, q) = d => ScannedBefore(p, q)

\* the codons of 'order' written one after the other with ", " in between
CodonLabel(order) ==
    [x \in 1..(5 * Len(order) - 2) |->
        IF (x - 1) % 5 < 3 THEN order[((x - 1) \div 5) + 1][((x - 1) % 5) + 1]
        ELSE IF (x - 1) % 5 = 3 THEN "," ELSE " "]

AllBlank(text) == \A k \in 1..Len(text) : text[k] \in {" ", NL}

\* C8: without a worker fault the call fails only when the file has zero
\* non-blank lines; every other file ends in a complete record.
C8_FailsOnlyOnBlankFile ==
    /\ (pc = "failed" /\ raisedBy = 0) => AllBlank(file)
    /\ pc = "done" =>
           /\ ~AllBlank(file)
           /\ returned.kind = "record"
           /\ Len(returned.sequences) = Len(sequences)

\* C9: a file of zero non-blank lines raises ValueError before any worker
\* pool is started, and nothing is returned.
C9_BlankFileRejected ==
    (AllBlank(file) /\ pc # "open") =>
        /\ pc = "failed"
        /\ error = "ValueError"
        /\ poolsStarted = 0
        /\ pool = "none"
        /\ sequences_results = <<>>
        /\ returned = NoRecord

\* a file of blank lines only (spaces and line ends) was rejected
C9_Witness ==
    /\ pc = "failed"
    /\ AllBlank(file)
    /\ Len(file) >= 3
    /\ " " \in Range(file)
    /\ NL \in Range(file)

\* the k-th index pair (i, j), i < j, in enumeration order (0,1), (0,2), ...
PairAt(n, k) ==
    CHOOSE p \in IndexPairs(n) :
        Cardinality({q \in IndexPairs(n) : q = p \/ ScannedBefore(q, p)}) = k

\* per-pair results listed in pair enumeration order
EnumeratedPairResults(seqs) ==
    [k \in 1..Cardinality(IndexPairs(Len(seqs))) |->
        find_lcs_of_two(seqs[PairAt(Len(seqs), k)[1]], seqs[PairAt(Len(seqs), k)[2]])]

\* C10: whatever the completion order of the pair workers, the result is the
\* aggregation of the per-pair results in pair enumeration order, and no
\* worker step changes the sequence list.
C10_CompletionOrderIrrelevant ==
    [][/\ pc = "pair_map" => sequences' = sequences
       /\ (pc = "pair_map" /\ pc' = "lcs_done") =>
              lcs_result' = resolve_lcs(EnumeratedPairResults(sequences), sequences)]_vars

\* a tied result whose pairs completed in the reverse of enumeration order
C10_Witness ==
    /\ pc = "lcs_done"
    /\ lcs_result.shape = "mapping"
    /\ arrived = <<3, 2, 1>>

\* every unit of the live map has delivered its result
AllSequenceResultsIn == DOMAIN slots = 1..Len(sequences) /\ pending = {}

AllPairResultsIn ==
    DOMAIN slots = 1..Cardinality(IndexPairs(Len(sequences))) /\ pending = {}

\* C11: both maps are full barriers: the aggregation of the pair results
\* starts only with the result of every pair, and the codon aggregation and
\* the record assembly only with the composition result of every sequence.
C11_FullBarriers ==
    [][/\ (pc = "seq_map" /\ pc' \notin {"seq_map", "failed"}) => AllSequenceResultsIn
       /\ sequences_results' # sequences_results =>
              (AllSequenceResultsIn /\ Len(sequences_results') = Len(sequences))
       /\ (pc = "pair_map" /\ pc' \notin {"pair_map", "failed"}) => AllPairResultsIn
       /\ lcs_result' # lcs_result =>
              ((pc = "pair_map" /\ AllPairResultsIn) \/ sequences = <<>>)
       /\ (total_codon_count' # total_codon_count
           \/ most_common_codon' # most_common_codon
           \/ returned' # returned) =>
              (pool = "none" /\ Len(sequences_results) = Len(sequences))]_vars

\* both maps were joined with three units each
C11_Witness ==
    /\ pc = "lcs_done"
    /\ Len(sequences_results) = 3
    /\ Len(arrived) = 3
    /\ lcs_result.shape = "record"

\* C12: once a worker unit has raised, the call can only fail with that
\* fault: the unit is not run again, no result stands in for it, nothing is
\* aggregated from the map and no record is returned.
C12_FaultAborts ==
    raisedBy # 0 =>
        /\ pc \in {"seq_map", "pair_map", "failed"}
        /\ pc = "failed" => (error = "WorkerFault" /\ pool = "none")
        /\ pc = "seq_map" => ENABLED RaiseFromSequenceMap
        /\ pc = "pair_map" => ENABLED RaiseFromPairMap
        /\ raisedBy \notin pending
        /\ raisedBy \notin DOMAIN slots
        /\ returned = NoRecord
        /\ lcs_result = NoLcs
        /\ poolsStarted = 1 => (sequences_results = <<>> /\ most_common_codon = <<>>)

\* the second pair unit raised after the first map had been joined, and the
\* call failed
C12_Witness ==
    /\ pc = "failed"
    /\ error = "WorkerFault"
    /\ poolsStarted = 2
    /\ raisedBy = 2
    /\ sequences_results # <<>>

\* positions that bound the lines of a text: before it, each line end, after it
LineBreaks(text) == {0, Len(text) + 1} \cup {k \in 1..Len(text) : text[k] = NL}

\* <<a, b>>: a line lies strictly between the consecutive breaks a and b
LineSpans(text) ==
    {sp \in LineBreaks(text) \X LineBreaks(text) :
        /\ sp[1] < sp[2]
        /\ \A k \in LineBreaks(text) : ~(sp[1] < k /\ k < sp[2])}

InkOf(text, sp) == {k \in (sp[1] + 1)..(sp[2] - 1) : text[k] # " "}

NonBlankSpans(text) == {sp \in LineSpans(text) : InkOf(text, sp) # {}}

SetMin(S) == CHOOSE v \in S : \A w \in S : v <= w

\* the m-th of the spans, in file order, from its first to its last
\* non-blank character
TrimmedLine(text, spans, m) ==
    LET sp == CHOOSE t \in spans : Cardinality({u \in spans : u[1] < t[1]}) = m - 1
    IN SubSeq(text, SetMin(InkOf(text, sp)), SetMax(InkOf(text, sp)))

\* the non-blank lines of the text, trimmed, in file order
ExpectedSequences(text) ==
    LET spans == NonBlankSpans(text)
    IN [m \in 1..Cardinality(spans) |-> TrimmedLine(text, spans, m)]

\* C13: the sequences are exactly the non-blank lines of the file, trimmed,
\* in file order, and entry k of the returned 'sequences' list is the
\* composition result of the k-th of them.
C13_FileOrderKept ==
    pc \in {"seq_pool", "done"} =>
        LET expected == ExpectedSequences(file)
        IN  /\ sequences = expected
            /\ pc = "done" =>
                   /\ Len(returned.sequences) = Len(expected)
                   /\ \A k \in 1..Len(expected) :
                          returned.sequences[k] = process_sequence(expected[k])

\* the file " C", blank line, "AAA": two sequences with different results
C13_Witness ==
    /\ pc = "done"
    /\ file = <<" ", "C", NL, NL, "A", "A", "A">>
    /\ Len(returned.sequences) = 2
    /\ returned.sequences[1] # returned.sequences[2]

\* C14: the returned record is a function of the file content alone, the
\* same for every scheduling of the worker units, so two runs on the same
\* file return identical records.
C14_RecordDeterminedByFile ==
    pc = "done" =>
        LET seqs == ReadSequences(file)
        IN  returned =
                [kind |-> "record",
                 sequences |-> [k \in 1..Len(seqs) |-> process_sequence(seqs[k])],
                 most_common_codon |-> compute_most_frequent_codon(seqs).value,
                 lcs |-> resolve_lcs(EnumeratedPairResults(seqs), seqs)]

\* a record with a tied LCS mapping whose pair units completed out of order
C14_Witness ==
    /\ pc = "done"
    /\ returned.lcs.shape = "mapping"
    /\ arrived = <<3, 1, 2>>

\* start offsets (1-based) in a of the common substrings of a and b of length n
CommonStarts(a, b, n) ==
    {i \in 1..(Len(a) - n + 1) : SubSeq(a, i, i + n - 1) \in Substrings(b)}

\* C15: among the common substrings of maximum length, find_lcs_of_two
\* returns the one that starts leftmost in its first argument.
C15_LeftmostKept ==
    pc = "pair_returned" =>
        LET a == tasks[1][1]
            b == tasks[1][2]
            n == LongestCommonLen(a, b)
            first == SetMin(CommonStarts(a, b, n))
        IN  n > 0 => slots[1] = SubSeq(a, first, first + n - 1)

\* the pair ("AC", "CA"): "A" and "C" tie at length 1, "A" starts first in
\* "AC" although "C" starts first in "CA"
C15_Witness ==
    /\ pc = "pair_returned"
    /\ tasks[1] = << <<"A", "C">>, <<"C", "A">> >>
    /\ slots[1] = <<"A">>

RECURSIVE SumOf(_)
SumOf(values) == IF values = <<>> THEN 0 ELSE Head(values) + SumOf(Tail(values))

\* C16: the counts of a sequence's codon table add up to floor(len(s) / 3).
C16_CodonCountSum ==
    pc = "seq_returned" =>
        SumOf(DictValues(sequences_results[1].codons)) = Len(sequences[1]) \div 3

\* "ACGAC": one complete codon, two leftover characters
C16_Witness ==
    /\ pc = "seq_returned"
    /\ sequences[1] = <<"A", "C", "G", "A", "C">>
    /\ SumOf(DictValues(sequences_results[1].codons)) = 1

\* number of aligned complete windows s[3k..3k+2] of s equal to c
WindowCount(s, c) ==
    Cardinality({k \in 0..((Len(s) \div 3) - 1) : SubSeq(s, 3 * k + 1, 3 * k + 3) = c})

\* C17: the table of a sequence holds, for every string c, the number of
\* aligned non-overlapping complete 3-character windows equal to c (strings
\* with no such window have no key); keys are the windows as written, with
\* no change of case, and leftover characters feed no key.
C17_AlignedWindowsOnly ==
    pc = "seq_returned" =>
        LET s == sequences[1]
            d == sequences_results[1].codons
        IN  /\ \A k \in DOMAIN d :
                   /\ Len(d[k].key) = 3
                   /\ d[k].val = WindowCount(s, d[k].key)
                   /\ d[k].val > 0
                   /\ \A j \in DOMAIN d : d[j].key = d[k].key => j = k
            /\ \A c \in [1..3 -> SeqAlphabet] : WindowCount(s, c) > 0 => DictHas(d, c)

\* "ACcACCG": the windows "ACc" and "ACC" stay two keys, "G" is left over,
\* and the overlapping window "CcA" is no key
C17_Witness ==
    /\ pc = "seq_returned"
    /\ sequences[1] = <<"A", "C", "c", "A", "C", "C", "G">>
    /\ sequences_results[1].codons =
           << [key |-> <<"A", "C", "c">>, val |-> 1],
              [key |-> <<"A", "C", "C">>, val |-> 1] >>

\* C18: gc_content is 100 * (#C + #G) / len(s) to the nearest hundredth, the
\* denominator being the whole length, and lies between 0 and 100
\* (gc_content is held in hundredths of a percent).
C18_GcContent ==
    pc = "seq_returned" =>
        LET s == sequences[1]
            g == sequences_results[1].gc_content
            exact == 10000 * (CountChar(s, "C") + CountChar(s, "G"))
            diff == g * Len(s) - exact
        IN  /\ 2 * diff <= Len(s)
            /\ 2 * (0 - diff) <= Len(s)
            /\ 0 <= g
            /\ g <= 10000

\* "GCAA": 2 of 4 characters, 50.00, where the codon-covered length 3 would
\* give 66.67
C18_Witness ==
    /\ pc = "seq_returned"
    /\ sequences[1] = <<"G", "C", "A", "A">>
    /\ sequences_results[1].gc_content = 5000

\* count of codon c in table d, 0 when c is no key of d
TableCount(d, c) == IF DictHas(d, c) THEN DictGet(d, c) ELSE 0

\* every 3-character string a line of a file can hold
Codons == [1..3 -> FileChars \ {NL}]

\* compute_most_frequent_codon has just returned; the record is returned
AfterCodonStep == {"lcs_call", "done"}

\* the keys of every table of the list
KeysOf(tables) == UNION {{tables[k][j].key : j \in DOMAIN tables[k]} : k \in DOMAIN tables}

\* C19: once the global table is folded, each codon's global count is the sum
\* of its per-sequence counts (a codon of no sequence is no key), the table's
\* counts add up to the sum of floor(len(s) / 3) over the sequences, and the
\* same holds against the 'codons' maps of the returned record.
C19_TableIsSumOfSequences ==
    pc \in AfterCodonStep =>
        LET perSequence == [k \in 1..Len(sequences_results) |-> sequences_results[k].codons]
        IN  /\ \A c \in KeysOf(<<total_codon_count>> \o perSequence) :
                   TableCount(total_codon_count, c) =
                       SumOf([k \in 1..Len(perSequence) |-> TableCount(perSequence[k], c)])
            /\ \A k \in DOMAIN total_codon_count :
                   /\ total_codon_count[k].key \in Codons
                   /\ \A j \in DOMAIN total_codon_count :
                          total_codon_count[j].key = total_codon_count[k].key => j = k
            /\ SumOf(DictValues(total_codon_count)) =
                   SumOf([k \in 1..Len(sequences) |-> Len(sequences[k]) \div 3])
            /\ pc = "done" =>
                   /\ Len(returned.sequences) = Len(sequences)
                   /\ \A k \in 1..Len(returned.sequences) :
                          returned.sequences[k].codons = perSequence[k]

\* the file "AAA\nAAA": codon AAA counted once in each sequence, twice globally
C19_Witness ==
    /\ pc = "done"
    /\ file = <<"A", "A", "A", NL, "A", "A", "A">>
    /\ total_codon_count = << [key |-> <<"A", "A", "A">>, val |-> 2] >>
    /\ Len(returned.sequences) = 2

ScenarioC == <<"A", "A", "A", NL, "A", "A", "A", NL, "C", "C", "C">>

\* C20: for the input ["AAA", "AAA", "CCC"] the returned record has
\* most_common_codon "AAA" and the single LCS record with value "AAA",
\* sequences [1, 2] and length 3; the two equal sequences are a pair.
C20_ScenarioDuplicate ==
    /\ (pc = "pair_map" /\ file = ScenarioC) =>
           tasks[1] = << <<"A", "A", "A">>, <<"A", "A", "A">> >>
    /\ (pc = "done" /\ file = ScenarioC) =>
           /\ sequences = << <<"A", "A", "A">>, <<"A", "A", "A">>, <<"C", "C", "C">> >>
           /\ returned.most_common_codon = <<"A", "A", "A">>
           /\ returned.lcs = [shape |-> "record",
                              record |-> [value |-> <<"A", "A", "A">>,
                                          sequences |-> <<1, 2>>,
                                          length |-> 3]]

\* the run on that file has returned, the pair of sequences 2 and 3 having
\* completed first and the pair of the two equal sequences last
C20_Witness ==
    /\ pc = "done"
    /\ file = ScenarioC
    /\ arrived = <<3, 2, 1>>
    /\ returned.lcs.shape = "record"


\* ------------------------------------------------- pipeline claims C21, C22
\* the text appears in the log output, as a message or as its detail
Logged(text) == \E k \in 1..Len(log) : log[k][1] = text \/ log[k][2] = text

\* the message of the first rule the input breaks, in the order the
\* pipeline applies the rules; "" when it breaks none
ViolatedRule(i) ==
    LET paths == validate_input_file(i.data, i.dirs)
        files == validate_context_path_files(i.data.context_path, i.files)
        json == process_json_files(i.doc)
    IN IF paths.raised # "none" THEN paths.msg
       ELSE IF files.raised # "none" THEN files.msg
       ELSE IF json.raised # "none" THEN json.msg
       ELSE ""

\* the input file is given, exists and decodes
Readable(i) == i.argv /\ i.file_exists /\ i.decodes

\* valid input: no rule is broken and the sequence file has a codon
ValidRun(i) ==
    /\ Readable(i)
    /\ ViolatedRule(i) = ""
    /\ ReadSequences(i.txt) # <<>>
    /\ ~compute_most_frequent_codon(ReadSequences(i.txt)).raised

\* C21: a run of backend/pipeline.py on a valid input goes through Extract,
\* Transform and Load, exits with return code 0, logs 'ETL pipeline completed
\* successfully' and leaves <results_path>/<participant_id>.json whose
\* metadata carries the input context_path and results_path.
C21_ValidRunSucceeds ==
    (stage = "exited" /\ ValidRun(input)) =>
        /\ exit_code = 0
        /\ Logged("Starting the extract stage")
        /\ Logged("Starting the Transform stage.")
        /\ Logged("Starting the Load stage.")
        /\ Logged("ETL pipeline completed successfully.")
        /\ output_file # NoFile
        /\ output_file.path = input.data.results_path \o <<"u1", ".json">>
        /\ output_file.metadata.context_path = input.data.context_path
        /\ output_file.metadata.results_path = input.data.results_path

\* C22: a run of backend/pipeline.py on an input that breaks a validation
\* rule exits with a non-zero return code and the error message of the
\* broken rule appears in its log output.
C22_RuleMessageLogged ==
    (stage = "exited" /\ Readable(input) /\ ViolatedRule(input) # "") =>
        /\ exit_code # 0
        /\ Logged(ViolatedRule(input))


DistinctSequences(seqs) == {seqs[k] : k \in 1..Len(seqs)}

\* the list 1, 2, ..., n
RECURSIVE Upto(_)
Upto(n) == IF n = 0 THEN <<>> ELSE Append(Upto(n - 1), n)

\* C23 as stated: with fewer than 2 distinct sequences in the list (a list
\* of equal strings included) no pair is searched and the result is the
\* empty record.
C23_FewDistinctSkips ==
    (pc = "lcs_done" /\ Cardinality(DistinctSequences(sequences)) < 2) =>
        /\ arrived = <<>>
        /\ lcs_result = [shape |-> "record", record |-> EmptyLcs]

\* C23, amended: with fewer than 2 sequences in the list no pair is searched
\* and the result is the empty record; a list of two or more equal strings
\* is searched pair by pair and yields that string with every index.
C23_FewSequencesEmpty ==
    pc = "lcs_done" =>
        /\ Len(sequences) < 2 =>
               /\ arrived = <<>>
               /\ lcs_result = [shape |-> "record", record |-> EmptyLcs]
        /\ (Len(sequences) >= 2 /\ Cardinality(DistinctSequences(sequences)) = 1) =>
               /\ 2 * Len(arrived) = Len(sequences) * (Len(sequences) - 1)
               /\ lcs_result = [shape |-> "record",
                                record |-> [value |-> sequences[1],
                                            sequences |-> Upto(Len(sequences)),
                                            length |-> Len(sequences[1])]]

\* the call on ["AAA", "AAA"] has returned the record of "AAA"
C23_Witness ==
    /\ pc = "lcs_done"
    /\ sequences = << <<"A", "A", "A">>, <<"A", "A", "A">> >>
    /\ lcs_result.shape = "record"
    /\ lcs_result.record.sequences = <<1, 2>>


\* --------------------------------------------------------------- claim C24
\* position in pair enumeration order of the first pair whose result is c
FirstPairWith(results, c) ==
    CHOOSE k \in 1..Len(results) :
        results[k] = c /\ \A m \in 1..(k - 1) : results[m] # c

\* C24: the candidates are the distinct per-pair results of maximum length,
\* kept in the order in which the pair enumeration (0,1), (0,2), ...,
\* (n-2,n-1) first produces them; every returned value is such a candidate
\* and the keys of a tied mapping are distinct and appear in that order.
C24_FirstSeenOrder ==
    pc = "lcs_done" =>
        /\ \A r \in ResultRecords(lcs_result) :
               r.value # <<>> => r.value \in PairWinners(sequences)
        /\ lcs_result.shape = "mapping" =>
               LET results == EnumeratedPairResults(sequences)
                   items == lcs_result.items
               IN \A a, b \in 1..Len(items) :
                      a < b =>
                          /\ items[a].key # items[b].key
                          /\ FirstPairWith(results, items[a].key)
                                 < FirstPairWith(results, items[b].key)

\* ["AC", "A", "C"]: pair (0,1) gives "A", pair (0,2) gives "C"; they tie
C24_Witness ==
    /\ pc = "lcs_done"
    /\ sequences = << <<"A", "C">>, <<"A">>, <<"C">> >>
    /\ lcs_result.shape = "mapping"
    /\ lcs_result.items[1].key = <<"A">>
    /\ lcs_result.items[2].key = <<"C">>


\* --------------------------------------------------------------- claim C25
\* C25: within one call of process_txt_files the per-sequence map runs in
\* the first pool, which is joined and closed before the codon aggregation;
\* the aggregation is done before the pair map starts in the second pool;
\* no pool is alive outside its own map, so the two are never alive
\* together; the record is assembled only when all three computations are
\* finished.
C25_PhaseOrder ==
    /\ pool = "sequences" <=> pc = "seq_map"
    /\ pool = "pairs" <=> pc = "pair_map"
    /\ pc \in {"open", "seq_pool"} =>
           /\ poolsStarted = 0
           /\ sequences_results = <<>>
    /\ pc = "seq_map" =>
           /\ poolsStarted = 1
           /\ sequences_results = <<>>
           /\ most_common_codon = <<>>
           /\ lcs_result = NoLcs
    /\ pc = "codon" =>
           /\ poolsStarted = 1
           /\ pending = {}
           /\ Len(sequences_results) = Len(sequences)
           /\ most_common_codon = <<>>
           /\ lcs_result = NoLcs
    /\ pc = "lcs_call" =>
           /\ poolsStarted = 1
           /\ Len(sequences_results) = Len(sequences)
           /\ most_common_codon # <<>>
           /\ lcs_result = NoLcs
    /\ pc = "pair_map" =>
           /\ poolsStarted = 2
           /\ Len(sequences_results) = Len(sequences)
           /\ most_common_codon # <<>>
           /\ lcs_result = NoLcs
    /\ pc = "lcs_done" =>
           /\ pending = {}
           /\ lcs_result # NoLcs
    /\ returned # NoRecord <=> pc = "done"
    /\ pc = "done" =>
           /\ poolsStarted = 2
           /\ pending = {}
           /\ returned.sequences = sequences_results
           /\ Len(returned.sequences) = Len(sequences)
           /\ returned.most_common_codon = most_common_codon
           /\ most_common_codon # <<>>
           /\ returned.lcs = lcs_result
           /\ lcs_result # NoLcs

\* a call on two sequences has gone through both pools and returned
C25_Witness ==
    /\ pc = "done"
    /\ poolsStarted = 2
    /\ pool = "none"
    /\ Len(sequences) = 2
    /\ Len(returned.sequences) = 2
    /\ Len(arrived) = 1


\* ------------------------------------------------ calc_gc_content alone
MaxGcLen == 5

\* Variant of calc_gc_content_outcome: the empty sequence has GC content 0
calc_gc_content_outcome_zero(sequence) ==
    IF Len(sequence) = 0
    THEN [raised |-> "none", value |-> 0]
    ELSE [raised |-> "none", value |-> calc_gc_content(sequence)]

\* calc_gc_content: the division at line 21 raises ZeroDivisionError when
\* len(sequence) is 0, and nothing is returned
calc_gc_content_outcome(sequence) ==
    IF Len(sequence) = 0
    THEN [raised |-> "ZeroDivisionError", value |-> 0]
    ELSE [raised |-> "none", value |-> calc_gc_content(sequence)]

GcSeqs == UNION {[1..n -> SeqAlphabet] : n \in 0..MaxGcLen}

GcFiles == UNION {[1..n -> FileChars] : n \in 0..MaxGcLen}

\* calc_gc_content(s) called on its own on every sequence of GcSeqs, the
\* empty one included, or process_txt_files called on every file of GcFiles
InitGc ==
    /\ \/ /\ sequences \in {<<s>> : s \in GcSeqs}
          /\ pc = "gc_call"
          /\ file = <<>>
       \/ /\ sequences = <<>>
          /\ pc = "open"
          /\ file \in GcFiles
    /\ tasks = <<>>
    /\ pending = {}
    /\ slots = <<>>
    /\ arrived = <<>>
    /\ raisedBy = 0
    /\ pool = "none"
    /\ poolsStarted = 0
    /\ sequences_results = <<>>
    /\ total_codon_count = <<>>
    /\ most_common_codon = <<>>
    /\ lcs_result = NoLcs
    /\ returned = NoRecord
    /\ error = "none"
    /\ PipelineIdle

CallCalcGcContent ==
    /\ pc = "gc_call"
    /\ LET r == calc_gc_content_outcome(sequences[1])
       IN IF r.raised # "none"
          THEN /\ pc' = "gc_failed"
               /\ error' = r.raised
               /\ UNCHANGED slots
          ELSE /\ pc' = "gc_returned"
               /\ slots' = (1 :> r.value)
               /\ UNCHANGED error
    /\ UNCHANGED <<file, sequences, tasks, pending, arrived, raisedBy, pool,
                   poolsStarted, sequences_results, total_codon_count,
                   most_common_codon, lcs_result, returned>>
    /\ UNCHANGED pipeline_vars

NextGc ==
    \/ CallCalcGcContent
    \/ Next

SpecGc == InitGc /\ [][NextGc]_vars

\* ------------------------------------------------------- fair scheduling
\* sequence files of a fairly scheduled call: three sequences two of which
\* are equal, two sequences, one sequence, none, and one without a codon
FairFiles == StageFiles \cup {ScenarioC}

InitFair ==
    /\ file \in FairFiles
    /\ pc = "open"
    /\ sequences = <<>>
    /\ tasks = <<>>
    /\ pending = {}
    /\ slots = <<>>
    /\ arrived = <<>>
    /\ raisedBy = 0
    /\ pool = "none"
    /\ poolsStarted = 0
    /\ sequences_results = <<>>
    /\ total_codon_count = <<>>
    /\ most_common_codon = <<>>
    /\ lcs_result = NoLcs
    /\ returned = NoRecord
    /\ error = "none"
    /\ PipelineIdle

\* the steps of the call: those of the calling thread and those of the
\* workers; as long as one of them can be taken, one of them is taken, which
\* is all the operating system's scheduler is relied on for
Fairness == WF_vars(Next)

\* process_txt_files on every file of FairFiles, fairly scheduled
SpecFair == InitFair /\ [][Next]_vars /\ Fairness

\* --------------------------------------------------------------- claim C26
\* C26: there is no cancellation or timeout. While a dispatched unit is
\* outstanding the call takes no step of its own and returns nothing; a
\* record is returned only when no unit is outstanding and none has raised;
\* and when the calling thread and every unit are scheduled fairly, the call
\* eventually returns or fails.
C26_NoTimeout ==
    /\ [][(pending # {} /\ raisedBy = 0) =>
              (pc' = pc /\ pool' = pool /\ returned' = returned
               /\ sequences_results' = sequences_results
               /\ lcs_result' = lcs_result)]_vars
    /\ [](returned # NoRecord => (pending = {} /\ raisedBy = 0 /\ pc = "done"))
    /\ <>(pc \in {"done", "failed"})

\* the call is blocked in the join of the pair map: two of the three units
\* have completed and the last one is outstanding
C26_Witness ==
    /\ pc = "pair_map"
    /\ raisedBy = 0
    /\ Cardinality(pending) = 1
    /\ Len(arrived) = 2
    /\ returned = NoRecord


\* --------------------------------------------------------------- claim C27
\* C27: calc_gc_content called with the empty sequence fails with a
\* division by zero and returns no value, and with any other sequence it
\* returns one; process_txt_files never hands it an empty sequence, every
\* sequence read from the file and every unit of the first map being a
\* non-blank trimmed line.
C27_EmptyDivides ==
    /\ pc \in {"gc_returned", "gc_failed"} =>
           IF sequences[1] = <<>>
           THEN /\ pc = "gc_failed"
                /\ error = "ZeroDivisionError"
                /\ slots = <<>>
           ELSE /\ pc = "gc_returned"
                /\ error = "none"
                /\ DOMAIN slots = {1}
    /\ pc \notin {"gc_call", "gc_returned", "gc_failed"} =>
           /\ \A k \in 1..Len(sequences) :
                  /\ sequences[k] # <<>>
                  /\ sequences[k][1] \notin Whitespace
                  /\ sequences[k][Len(sequences[k])] \notin Whitespace
           /\ pc = "seq_map" =>
                  \A k \in 1..Len(tasks) :
                      calc_gc_content_outcome(tasks[k]).raised = "none"
           /\ error # "ZeroDivisionError"

\* the call on the empty sequence has failed
C27_Witness ==
    /\ pc = "gc_failed"
    /\ sequences = << <<>> >>
    /\ error = "ZeroDivisionError"


\* --------------------------------------------------------------- claim C29
\* C29: every record returned by compute_longest_common_subsequence, the
\* single one and each entry of a tied mapping, is well-formed: 'length' is
\* the number of characters of 'value'; 'sequences' is strictly increasing
\* with every index in 1..n; 'sequences' is empty exactly when 'value' is
\* empty, and a non-empty 'value' has at least 2 indices.
C29_WellFormedRecords ==
    pc = "lcs_done" =>
        \A r \in ResultRecords(lcs_result) :
            /\ r.length = Len(r.value)
            /\ \A k \in 1..Len(r.sequences) : r.sequences[k] \in 1..Len(sequences)
            /\ \A a, b \in 1..Len(r.sequences) :
                   a < b => r.sequences[a] < r.sequences[b]
            /\ r.sequences = <<>> <=> r.value = <<>>
            /\ r.value # <<>> => Len(r.sequences) >= 2

\* ["AC", "A", "AC"]: the record of "AC" lists the sequences 1 and 3
C29_Witness ==
    /\ pc = "lcs_done"
    /\ lcs_result.shape = "record"
    /\ lcs_result.record.value = <<"A", "C">>
    /\ lcs_result.record.length = 2
    /\ lcs_result.record.sequences = <<1, 3>>

\* --------------------------------------------------------------- claim C30
\* C30: for all sequences A and B the result of the pairwise matcher on
\* (A, B) has the length of its result on (B, A), so the length found for a
\* pair does not depend on which sequence is passed first; the two strings
\* themselves may differ.
C30_LengthSymmetric ==
    pc = "pair_returned" =>
        /\ Len(slots[1]) = Len(find_lcs_of_two(tasks[1][2], tasks[1][1]))
        /\ IsSubstr(find_lcs_of_two(tasks[1][2], tasks[1][1]), tasks[1][1])
        /\ IsSubstr(slots[1], tasks[1][2])

\* the matcher has returned "A" on ("AC", "CA"); on ("CA", "AC") it gives "C"
C30_Witness ==
    /\ pc = "pair_returned"
    /\ tasks[1] = << <<"A", "C">>, <<"C", "A">> >>
    /\ slots[1] = <<"A">>
    /\ find_lcs_of_two(tasks[1][2], tasks[1][1]) = <<"C">>

====
